---- MODULE Spec2Model ----
(***************************************************************************)
(* A model of the path tracer tonyxty/raytracer.                           *)
(*                                                                         *)
(* Number model.  The program computes in f64.  Here every real quantity   *)
(* is an integer: vectors are triples of integers, `/' is Div (rounding   *)
(* down) and `sqrt' is Sqrt (the floor of the root, NaN below 0).          *)
(* The inputs are drawn from lattice geometry (integer centres and radii,  *)
(* axis-aligned camera rays), on which the operations are exact.  Colours  *)
(* of the integrator are in units of 1/20 (so that 0.5 and 0.7 are whole). *)
(*                                                                         *)
(* Randomness (the thread-local SmallRng, UnitSphere, UnitDisc, gen) is a  *)
(* nondeterministic choice from a small set.                               *)
(***************************************************************************)
EXTENDS Integers, Sequences, FiniteSets, TLC

VARIABLES
    \* ---- render(): the fork-join renderer (lib.rs) ----
    pc,         \* position of the thread that called render()
    spawned,    \* number of worker threads spawned so far
    wstate,     \* wstate[w]: "unspawned", "running", "finished", "panicked"
    rng,        \* rng[w]: state of worker w's thread-local RNG
    wbuf,       \* wbuf[w]: the pixels worker w has collected so far
    joined,     \* number of threads joined so far
    results,    \* the Vec of joined per-worker buffers
    buffer,     \* the accumulation buffer of the reduction
    image,      \* what render() returned: None or Some([width, height, buffer])
    \* ---- ray_color(): the recursive integrator (lib.rs) ----
    objects,    \* the scene, in scene order
    objects0,   \* the scene as it was built
    cur,        \* the ray of the current call
    depth,      \* the depth of the current call
    stack,      \* the attenuations of the calls waiting for their recursive call
    phase,      \* "call": a call is starting, "ret": one returned, "done"
    val,        \* the value the last call returned
    retDepth,   \* the depth argument of the call that returned val
    sel,        \* the intersection the last call selected: None or Some([idx, t, ray])
    \* ---- Sphere::intersect on one input (geometry.rs) ----
    sp_in,      \* [sphere, ray, range]
    sp_out,     \* None before the call, Some(result) after it
    \* ---- refract_schlick on one input (material.rs) ----
    rs_in,      \* [v, n, ratio, rand2]
    rs_out,     \* None before the call, Some([cos, direction]) after it
    \* ---- one Intersection and its cache (object.rs) ----
    isect,      \* the Intersection: [t, ray, object]
    cache,      \* [point, normal_front]: the two LazyCells, None while empty
    computed,   \* [point, normal_front]: how often each closure has run
    seen,       \* [point, normal, front]: the sets of values the calls returned
    calls       \* number of calls made on the intersection

rvars == <<pc, spawned, wstate, rng, wbuf, joined, results, buffer, image>>
tvars == <<objects, objects0, cur, depth, stack, phase, val, retDepth, sel>>
svars == <<sp_in, sp_out>>
dvars == <<rs_in, rs_out>>
cvars == <<isect, cache, computed, seen, calls>>
vars == <<rvars, tvars, svars, dvars, cvars>>

\* Each part of the program is run on its own: a step of one part leaves the
\* state of the others alone.
OnlyRender == UNCHANGED <<tvars, svars, dvars, cvars>>
OnlyTrace == UNCHANGED <<rvars, svars, dvars, cvars>>
OnlySphere == UNCHANGED <<rvars, tvars, dvars, cvars>>
OnlySchlick == UNCHANGED <<rvars, tvars, svars, cvars>>
OnlyCache == UNCHANGED <<rvars, tvars, svars, dvars>>

\* Option<T>: None, or Some(x) with the value x == opt[1]
None == <<>>
Some(x) == <<x>>
\* the result of an invalid f64 operation; no root is negative
NaN == 0 - 1

----------------------------------------------------------------------------
(* Bounds of the model. *)

\* Scaled-down configuration of lib.rs (NUM_THREADS = 8, NUM_SAMPLES = 128,
\* IMAGE_WIDTH = 300, IMAGE_HEIGHT = 200 in the source).
NUM_THREADS == 2
NUM_SAMPLES == 2
IMAGE_WIDTH == 2
IMAGE_HEIGHT == 1
\* Entropy seeds 0..MaxSeed a thread-local RNG can start from.
MaxSeed == 1
\* A sample's colour channel lies in 0..MaxChannel.
MaxChannel == 24

----------------------------------------------------------------------------
(* f64 arithmetic on the integer grid. *)

Abs(x) == IF x < 0 THEN -x ELSE x

\* x / y, rounded down to the grid: for a whole bound e, x / y < e exactly
\* when Div(x, y) < e, and e <= x / y exactly when e <= Div(x, y)
Div(x, y) == IF y > 0 THEN x \div y ELSE (-x) \div (-y)

RECURSIVE SqrtFrom(_, _)
SqrtFrom(x, r) == IF (r + 1) * (r + 1) > x THEN r ELSE SqrtFrom(x, r + 1)

\* f64::sqrt: NaN for a negative argument
Sqrt(x) == IF x < 0 THEN NaN ELSE SqrtFrom(x, 0)

Min(x, y) == IF x < y THEN x ELSE y

\* nalgebra Vector3<f64>
Vec(x, y, z) == <<x, y, z>>
Zero3 == Vec(0, 0, 0)
vadd(a, b) == Vec(a[1] + b[1], a[2] + b[2], a[3] + b[3])
vsub(a, b) == Vec(a[1] - b[1], a[2] - b[2], a[3] - b[3])
vneg(a) == Vec(-a[1], -a[2], -a[3])
vscale(a, k) == Vec(a[1] * k, a[2] * k, a[3] * k)
vdiv(a, k) == Vec(Div(a[1], k), Div(a[2], k), Div(a[3], k))
dot(a, b) == a[1] * b[1] + a[2] * b[2] + a[3] * b[3]
norm_squared(a) == dot(a, a)
component_mul(a, b) == Vec(a[1] * b[1], a[2] * b[2], a[3] * b[3])
vsqrt(a) == Vec(Sqrt(a[1]), Sqrt(a[2]), Sqrt(a[3]))
\* v / |v|
normalize(a) == vdiv(a, Sqrt(norm_squared(a)))

----------------------------------------------------------------------------
(* render(): lib.rs 132-156, with worker() 55-65 and the RNG of 34-36. *)

Workers == 1..NUM_THREADS
NPixels == IMAGE_WIDTH * IMAGE_HEIGHT
Seeds == 0..MaxSeed

\* iproduct!(0..IMAGE_WIDTH, 0..IMAGE_HEIGHT): the p-th pair (p from 1), the
\* horizontal index outermost.
PixelI(p) == (p - 1) \div IMAGE_HEIGHT
PixelJ(p) == (p - 1) % IMAGE_HEIGHT

\* One step of the SmallRng: the next state.
rng_next(s) == (5 * s + 3) % 16

\* One sample of worker(): the colour ray_color returns for pixel (i, j), as
\* a function of the random numbers the sample drew.
sample_color(s, i, j) ==
    Vec((7 * s + i) % (MaxChannel + 1), (3 * s + j) % (MaxChannel + 1),
        (11 * s) % (MaxChannel + 1))

RECURSIVE sample_sum(_, _, _, _)
sample_sum(s, i, j, k) ==
    IF k = 0 THEN Zero3
    ELSE vadd(sample_color(s, i, j), sample_sum(rng_next(s), i, j, k - 1))

RECURSIVE rng_after(_, _)
rng_after(s, k) == IF k = 0 THEN s ELSE rng_after(rng_next(s), k - 1)

\* worker(): the mean of NUM_SAMPLES samples of pixel (i, j)
worker(s, i, j) == vdiv(sample_sum(s, i, j, NUM_SAMPLES), NUM_SAMPLES)

RenderInit ==
    /\ pc = "spawn"
    /\ spawned = 0
    /\ wstate = [w \in Workers |-> "unspawned"]
    /\ rng = [w \in Workers |-> 0]
    /\ wbuf = [w \in Workers |-> <<>>]
    /\ joined = 0
    /\ results = <<>>
    /\ buffer = <<>>
    /\ image = None

\* s.spawn(..) of the next worker thread; its RNG is seeded from entropy when
\* the thread first uses it.
Spawn ==
    /\ pc = "spawn"
    /\ spawned < NUM_THREADS
    /\ \E seed \in Seeds :
         /\ wstate' = [wstate EXCEPT ![spawned + 1] = "running"]
         /\ rng' = [rng EXCEPT ![spawned + 1] = seed]
    /\ spawned' = spawned + 1
    /\ pc' = IF spawned + 1 = NUM_THREADS THEN "join" ELSE "spawn"
    /\ UNCHANGED <<wbuf, joined, results, buffer, image>>
    /\ OnlyRender

\* One pixel of a worker thread's iproduct!(..).map(worker).collect().
WorkerPixel(w) ==
    /\ wstate[w] = "running"
    /\ LET p == Len(wbuf[w]) + 1
       IN /\ wbuf' = [wbuf EXCEPT ![w] = Append(@, worker(rng[w], PixelI(p), PixelJ(p)))]
          /\ rng' = [rng EXCEPT ![w] = rng_after(@, NUM_SAMPLES)]
          /\ wstate' = [wstate EXCEPT ![w] = IF p = NPixels THEN "finished" ELSE "running"]
    /\ UNCHANGED <<pc, spawned, joined, results, buffer, image>>
    /\ OnlyRender

\* A worker thread panics: the expect() of ray_color or the unwrap() of the
\* RNG initialiser.
WorkerPanic(w) ==
    /\ wstate[w] = "running"
    /\ wstate' = [wstate EXCEPT ![w] = "panicked"]
    /\ UNCHANGED <<pc, spawned, rng, wbuf, joined, results, buffer, image>>
    /\ OnlyRender

\* t.join() returns only when the thread has ended.
JoinNeverBlocks(w) == TRUE
JoinReady(w) == wstate[w] \in {"finished", "panicked"}

\* t.join() is Err when the thread panicked.
JoinNeverFails(w) == FALSE
JoinFailed(w) == wstate[w] = "panicked"

\* t.join().unwrap() of the next thread, in spawn order.
Join ==
    /\ pc = "join"
    /\ LET w == joined + 1
       IN /\ JoinReady(w)
          /\ IF JoinFailed(w)
             THEN /\ pc' = "unwind"
                  /\ UNCHANGED <<joined, results>>
             ELSE /\ results' = Append(results, wbuf[w])
                  /\ joined' = w
                  /\ pc' = IF w = NUM_THREADS THEN "reduce" ELSE "join"
    /\ UNCHANGED <<spawned, wstate, rng, wbuf, buffer, image>>
    /\ OnlyRender

\* The closure of crossbeam::scope panicked: the scope waits for every thread
\* it spawned, then resumes the panic, and render() unwinds.
ScopeUnwind ==
    /\ pc = "unwind"
    /\ \A w \in Workers : wstate[w] \in {"finished", "panicked"}
    /\ pc' = "failed"
    /\ UNCHANGED <<spawned, wstate, rng, wbuf, joined, results, buffer, image>>
    /\ OnlyRender

\* buffer.iter_mut().zip(&r).for_each(|(a, b)| *a += b)
zip_add(buf, r) ==
    [p \in 1..Len(buf) |-> IF p <= Len(r) THEN vadd(buf[p], r[p]) ELSE buf[p]]

RECURSIVE fold_from(_, _, _)
fold_from(buf, rs, k) ==
    IF k > Len(rs) THEN buf ELSE fold_from(zip_add(buf, rs[k]), rs, k + 1)

\* results.next().unwrap(), then results.for_each(..) over the rest
reduce_double_first(rs) == fold_from(rs[1], rs, 1)
reduce_sum(rs) == fold_from(rs[1], rs, 2)

\* (*x / NUM_THREADS as f64).map(f64::sqrt)
gamma(x) == vsqrt(vdiv(x, NUM_THREADS))

Reduce ==
    /\ pc = "reduce"
    /\ buffer' = reduce_sum(results)
    /\ pc' = "gamma"
    /\ UNCHANGED <<spawned, wstate, rng, wbuf, joined, results, image>>
    /\ OnlyRender

Gamma ==
    /\ pc = "gamma"
    /\ buffer' = [p \in 1..Len(buffer) |-> gamma(buffer[p])]
    /\ image' = Some([width |-> IMAGE_WIDTH, height |-> IMAGE_HEIGHT, buffer |-> buffer'])
    /\ pc' = "done"
    /\ UNCHANGED <<spawned, wstate, rng, wbuf, joined, results>>
    /\ OnlyRender

RenderNext ==
    \/ Spawn
    \/ \E w \in Workers : WorkerPixel(w)
    \/ \E w \in Workers : WorkerPanic(w)
    \/ Join
    \/ ScopeUnwind
    \/ Reduce
    \/ Gamma

----------------------------------------------------------------------------
(* Ray (ray.rs), Sphere (geometry.rs), Intersection and Object (object.rs), *)
(* the materials (material.rs) and the camera (camera.rs).                  *)

\* the end of a Range<f64>: f64::INFINITY, or the finite end Fin(e)
Inf == <<>>
Fin(e) == <<e>>

\* Ray::new
Ray(origin, direction) == [origin |-> origin, direction |-> direction]

\* Ray::at
at(ray, t) == vadd(ray.origin, vscale(ray.direction, t))

\* Range<f64>::contains: start <= t && t < end
contains(range, t) ==
    /\ range.start <= t
    /\ (range.end = Inf \/ t < range.end[1])

\* Iterator::find over the two roots
find_last(roots, range) ==
    IF contains(range, roots[2]) THEN Some(roots[2])
    ELSE IF contains(range, roots[1]) THEN Some(roots[1])
    ELSE None
find(roots, range) ==
    IF contains(range, roots[1]) THEN Some(roots[1])
    ELSE IF contains(range, roots[2]) THEN Some(roots[2])
    ELSE None

\* the test on the discriminant
has_roots(disc) == disc > 0

\* <Sphere as Geometry>::intersect
Sphere_intersect(sphere, ray, range) ==
    LET v == vsub(ray.origin, sphere.center)
        a == norm_squared(ray.direction)
        b == dot(ray.direction, v)
        c == norm_squared(v) - sphere.radius * sphere.radius
        disc == b * b - a * c
    IN IF has_roots(disc)
       THEN LET d == Sqrt(disc)
            IN find(<<Div(-b - d, a), Div(-b + d, a)>>, range)
       ELSE None

\* <Sphere as Geometry>::normal
Sphere_normal(sphere, point) == normalize(vsub(point, sphere.center))

\* <(G, M) as Object>::intersect: the Intersection of a hit, its cache empty
Object_intersect(object, ray, range) ==
    LET t == Sphere_intersect(object, ray, range)
    IN IF t = None THEN None ELSE Some([t |-> t[1], ray |-> ray, object |-> object])

\* the closure of Intersection::point
compute_point(int) == at(int.ray, int.t)

\* the closure of Intersection::normal_front, given the hit point
compute_normal_front(int, point) ==
    LET n == Sphere_normal(int.object, point)
        front == dot(int.ray.direction, n) < 0
    IN [normal |-> IF front THEN n ELSE vneg(n), front |-> front]

\* reflect
reflect(v, n) == vsub(v, vscale(n, 2 * dot(v, n)))

Pow5(x) == x * x * x * x * x

\* reflectance(c, ratio) as the fraction num/den, ratio the fraction
\* ratio[1]/ratio[2]
reflectance(c, ratio) ==
    LET r0n == ratio[2] - ratio[1]
        r0d == ratio[2] + ratio[1]
    IN [num |-> r0n * r0n + (r0d * r0d - r0n * r0n) * Pow5(1 - c), den |-> r0d * r0d]

\* the cosine of refract_schlick: -v.dot(n).min(1.0), the method call binding
\* tighter than the unary minus
schlick_cos(v, n) == -Min(dot(v, n), 1)

\* refract_schlick; rand2 is twice the uniform draw of [0, 1)
refract_schlick(v, n, ratio, rand2) ==
    LET c == schlick_cos(v, n)
        s == Sqrt(1 - c * c)
        r == reflectance(c, ratio)
    IN IF (s # NaN /\ ratio[1] * s > ratio[2]) \/ 2 * r.num > rand2 * r.den
       THEN reflect(v, n)
       ELSE LET orthogonal == vdiv(vscale(vadd(v, vscale(n, c)), ratio[1]), ratio[2])
                parallel == vscale(n, -Sqrt(Abs(1 - norm_squared(orthogonal))))
            IN vadd(orthogonal, parallel)

White == Vec(20, 20, 20)

\* Material::scatter of the object's material, given the point, normal and
\* front-face it read from the intersection; u is the UnitSphere sample
Lambertian_scatter(int, point, nf, u) ==
    [ray |-> Ray(point, vadd(nf.normal, u)), m |-> int.object.color]

Metal_scatter(int, point, nf, u) ==
    [ray |-> Ray(point, vadd(reflect(int.ray.direction, nf.normal),
                             vscale(u, int.object.fuzz))),
     m |-> int.object.color]

Dielectric_scatter(int, point, nf, rand2) ==
    LET ratio == IF nf.front THEN <<1, int.object.index>> ELSE <<int.object.index, 1>>
    IN [ray |-> Ray(point, refract_schlick(int.ray.direction, nf.normal, ratio, rand2)),
        m |-> White]

\* LazyCell::borrow_with runs its closure only when the cell is not filled
never_filled(cell) == FALSE
filled(cell) == cell # None

\* Intersection::point on the state st = [cache, computed]: the state after
\* the call and the value returned
point(i, st) ==
    IF filled(st.cache.point)
    THEN [st |-> st, value |-> st.cache.point[1]]
    ELSE LET p == compute_point(i)
         IN [st |-> [cache |-> [st.cache EXCEPT !.point = Some(p)],
                     computed |-> [st.computed EXCEPT !.point = @ + 1]],
             value |-> p]

\* Intersection::normal_front; its closure reads self.point()
normal_front(i, st) ==
    IF filled(st.cache.normal_front)
    THEN [st |-> st, value |-> st.cache.normal_front[1]]
    ELSE LET pt == point(i, st)
             nf == compute_normal_front(i, pt.value)
         IN [st |-> [cache |-> [pt.st.cache EXCEPT !.normal_front = Some(nf)],
                     computed |-> [pt.st.computed EXCEPT !.normal_front = @ + 1]],
             value |-> nf]

\* what the calls have returned so far, with one more value
saw_point(sn, v) == [sn EXCEPT !.point = @ \cup {v}]
saw_normal(sn, v) == [sn EXCEPT !.normal = @ \cup {v}]
saw_front(sn, v) == [sn EXCEPT !.front = @ \cup {v}]

\* Material::scatter through the accessors of the intersection, in the order
\* the material calls them: the state after, the values seen, the result
scatter_cached(i, st, sn, u, rand2) ==
    CASE i.object.mat = "Lambertian" ->
           \* int.point(), then int.normal()
           LET pt == point(i, st)
               nf == normal_front(i, pt.st)
           IN [st |-> nf.st,
               seen |-> saw_normal(saw_point(sn, pt.value), nf.value.normal),
               out |-> Lambertian_scatter(i, pt.value, nf.value, u)]
      [] i.object.mat = "Metal" ->
           \* int.normal(), then int.point()
           LET nf == normal_front(i, st)
               pt == point(i, nf.st)
           IN [st |-> pt.st,
               seen |-> saw_point(saw_normal(sn, nf.value.normal), pt.value),
               out |-> Metal_scatter(i, pt.value, nf.value, u)]
      [] i.object.mat = "Dielectric" ->
           \* int.front(), int.normal(), then int.point()
           LET fr == normal_front(i, st)
               nf == normal_front(i, fr.st)
               pt == point(i, nf.st)
           IN [st |-> pt.st,
               seen |-> saw_point(saw_normal(saw_front(sn, fr.value.front),
                                             nf.value.normal), pt.value),
               out |-> Dielectric_scatter(
                           i, pt.value,
                           [normal |-> nf.value.normal, front |-> fr.value.front], rand2)]

\* Intersection::scatter on the intersection Object::intersect just built,
\* its cache empty (cache: Default::default())
empty_cache ==
    [cache |-> [point |-> None, normal_front |-> None],
     computed |-> [point |-> 0, normal_front |-> 0]]
nothing_seen == [point |-> {}, normal |-> {}, front |-> {}]

scatter(i, u, rand2) ==
    LET r == scatter_cached(i, empty_cache, nothing_seen, u, rand2).out
    IN [ray |-> r.ray, m |-> r.m]

cross(a, b) ==
    Vec(a[2] * b[3] - a[3] * b[2], a[3] * b[1] - a[1] * b[3], a[1] * b[2] - a[2] * b[1])

\* Camera::look_at; viewport_height stands for 2 tan(fov / 2)
look_at(origin, target, up, viewport_height, aspect_ratio, aperture, focus_distance) ==
    LET focus_plane_height == viewport_height * focus_distance
        focus_plane_width == focus_plane_height * aspect_ratio
        front == normalize(vsub(target, origin))
        right == normalize(cross(front, up))
        true_up == cross(right, front)
    IN [horizontal |-> vscale(right, focus_plane_width),
        vertical |-> vscale(true_up, focus_plane_height),
        origin |-> origin,
        direction |-> vscale(front, focus_distance),
        right |-> right,
        up |-> true_up,
        lens_radius |-> Div(aperture, 2)]

\* Camera::ray_at; du2 = 2 (u - 0.5), dv2 = 2 (v - 0.5), (x, y) the UnitDisc sample
ray_at(cam, du2, dv2, x, y) ==
    LET offset == vscale(vadd(vscale(cam.right, x), vscale(cam.up, y)), cam.lens_radius)
        direction == vadd(cam.direction, vadd(vdiv(vscale(cam.horizontal, du2), 2),
                                              vdiv(vscale(cam.vertical, dv2), 2)))
    IN Ray(vadd(cam.origin, offset), normalize(vsub(direction, offset)))

----------------------------------------------------------------------------
(* ray_color(): lib.rs 38-53, one call per step. *)

\* objects.iter().filter_map(|o| o.intersect(ray, 0.0..f64::INFINITY)): the
\* hits [idx, int] in scene order, from object k on
RECURSIVE hits_from(_, _, _)
hits_from(objs, ray, k) ==
    IF k > Len(objs) THEN <<>>
    ELSE LET i == Object_intersect(objs[k], ray, [start |-> 0, end |-> Inf])
             rest == hits_from(objs, ray, k + 1)
         IN IF i = None THEN rest ELSE <<[idx |-> k, int |-> i[1]]>> \o rest

\* the fold of Iterator::min_by: y replaces the minimum x so far only when
\* x.t().partial_cmp(&y.t()) is Greater
RECURSIVE min_by_last_from(_, _, _)
min_by_last_from(hs, m, k) ==
    IF k > Len(hs) THEN m
    ELSE min_by_last_from(hs, IF m.int.t >= hs[k].int.t THEN hs[k] ELSE m, k + 1)
min_by_last(hs) == IF hs = <<>> THEN None ELSE Some(min_by_last_from(hs, hs[1], 2))

RECURSIVE min_by_from(_, _, _)
min_by_from(hs, m, k) ==
    IF k > Len(hs) THEN m
    ELSE min_by_from(hs, IF m.int.t > hs[k].int.t THEN hs[k] ELSE m, k + 1)
min_by(hs) == IF hs = <<>> THEN None ELSE Some(min_by_from(hs, hs[1], 2))

\* the intersection ray_color scatters off: None or Some([idx, int])
closest_hit(objs, ray) == min_by(hits_from(objs, ray, 1))

\* the colour of a miss, in units of 1/20: t = 0.5 (v.y + 1), t2 = 2 t
background(ray) ==
    LET t2 == ray.direction[2] + 1
    IN Vec(20 - 5 * t2, 20 - 3 * t2, 20)

\* Default::default(), the value at depth 0
black_is_background(ray) == background(ray)
black(ray) == Zero3

\* ray_color(..).component_mul(&m), colours in units of 1/20
attenuate(c, m) == vdiv(component_mul(c, m), 20)

\* rand_distr::UnitSphere on the lattice
UnitVectors ==
    {Vec(1, 0, 0), Vec(0 - 1, 0, 0), Vec(0, 1, 0), Vec(0, 0 - 1, 0), Vec(0, 0, 1), Vec(0, 0, 0 - 1)}
\* twice a uniform draw of [0, 1)
Rand2 == {0, 1}

\* depth > 0 and an object is hit: scatter, and call ray_color at depth - 1
RayColorHit ==
    /\ phase = "call"
    /\ depth > 0
    /\ closest_hit(objects, cur) # None
    /\ LET h == closest_hit(objects, cur)[1]
       IN /\ sel' = Some([idx |-> h.idx, t |-> h.int.t, ray |-> cur])
          /\ \E u \in UnitVectors, rand2 \in Rand2 :
               LET rm == scatter(h.int, u, rand2)
               IN /\ cur' = rm.ray
                  /\ stack' = Append(stack, rm.m)
    /\ depth' = depth - 1
    /\ UNCHANGED <<objects, objects0, phase, val, retDepth>>
    /\ OnlyTrace

\* depth > 0 and no object is hit: the background
RayColorMiss ==
    /\ phase = "call"
    /\ depth > 0
    /\ closest_hit(objects, cur) = None
    /\ val' = background(cur)
    /\ retDepth' = depth
    /\ phase' = "ret"
    /\ sel' = None
    /\ UNCHANGED <<objects, objects0, cur, depth, stack>>
    /\ OnlyTrace

\* depth = 0
RayColorBlack ==
    /\ phase = "call"
    /\ depth = 0
    /\ val' = black(cur)
    /\ retDepth' = depth
    /\ phase' = "ret"
    /\ UNCHANGED <<objects, objects0, cur, depth, stack, sel>>
    /\ OnlyTrace

\* the recursive call returned to a caller, which multiplies by its attenuation
RayColorReturn ==
    /\ phase = "ret"
    /\ stack # <<>>
    /\ val' = attenuate(val, stack[Len(stack)])
    /\ stack' = SubSeq(stack, 1, Len(stack) - 1)
    /\ retDepth' = retDepth + 1
    /\ UNCHANGED <<objects, objects0, cur, depth, phase, sel>>
    /\ OnlyTrace

\* the outermost call returned
RayColorDone ==
    /\ phase = "ret"
    /\ stack = <<>>
    /\ phase' = "done"
    /\ UNCHANGED <<objects, objects0, cur, depth, stack, val, retDepth, sel>>
    /\ OnlyTrace

\* Scenes and cameras the integrator is run on.
MaxObjects == 2
MaxDepth == 2
MaxFocus == 2

Lambertian(center, radius, color) ==
    [center |-> center, radius |-> radius, mat |-> "Lambertian", color |-> color,
     fuzz |-> 0, index |-> 1]
Metal(center, radius, color, fuzz) ==
    [center |-> center, radius |-> radius, mat |-> "Metal", color |-> color,
     fuzz |-> fuzz, index |-> 1]
Dielectric(center, radius, index) ==
    [center |-> center, radius |-> radius, mat |-> "Dielectric", color |-> White,
     fuzz |-> 0, index |-> index]

ObjectKinds ==
    { Lambertian(Vec(0, 0, 0), 1, Vec(10, 10, 10)),
      Metal(Vec(0, 0, 0), 1, Vec(14, 12, 10), 0),
      Metal(Vec(0, 0, 0 - 3), 1, Vec(10, 16, 16), 0),
      Dielectric(Vec(0, 0, 0), 1, 1),
      Dielectric(Vec(1, 0, 1), 1, 2),
      Lambertian(Vec(0, 0, 0 - 1), 2, Vec(8, 4, 2)) }

Scenes == UNION {[1..k -> ObjectKinds] : k \in 0..MaxObjects}

\* <<origin, target>> of the cameras
CameraPlaces ==
    { <<Vec(0, 0, 5), Vec(0, 0, 0)>>,
      <<Vec(0, 0, 0 - 5), Vec(0, 0, 0)>>,
      <<Vec(0 - 5, 0, 1), Vec(0, 0, 1)>> }

Cameras ==
    { look_at(pl[1], pl[2], Vec(0, 1, 0), 1, 1, 0, f) :
        pl \in CameraPlaces, f \in 1..MaxFocus }

RenderIdle ==
    /\ pc = "idle"
    /\ spawned = 0
    /\ wstate = <<>>
    /\ rng = <<>>
    /\ wbuf = <<>>
    /\ joined = 0
    /\ results = <<>>
    /\ buffer = <<>>
    /\ image = None

TraceIdle ==
    /\ objects = <<>>
    /\ objects0 = <<>>
    /\ cur = Ray(Zero3, Zero3)
    /\ depth = 0
    /\ stack = <<>>
    /\ phase = "idle"
    /\ val = Zero3
    /\ retDepth = 0
    /\ sel = None

SphereIdle ==
    /\ sp_in = None
    /\ sp_out = None

SchlickIdle ==
    /\ rs_in = None
    /\ rs_out = None

CacheIdle ==
    /\ isect = None
    /\ cache = None
    /\ computed = None
    /\ seen = None
    /\ calls = 0

\* A sample of worker(): the centre of the image, the lens sample (0, 0).
TraceInit ==
    /\ objects \in Scenes
    /\ objects0 = objects
    /\ \E cam \in Cameras : cur = ray_at(cam, 0, 0, 0, 0)
    /\ depth \in 0..MaxDepth
    /\ stack = <<>>
    /\ phase = "call"
    /\ val = Zero3
    /\ retDepth = 0
    /\ sel = None

TraceNext ==
    \/ RayColorHit
    \/ RayColorMiss
    \/ RayColorBlack
    \/ RayColorReturn
    \/ RayColorDone

Init == RenderInit /\ TraceIdle /\ SphereIdle /\ SchlickIdle /\ CacheIdle
Spec == Init /\ [][RenderNext]_vars

InitTrace == TraceInit /\ RenderIdle /\ SphereIdle /\ SchlickIdle /\ CacheIdle
SpecTrace == InitTrace /\ [][TraceNext]_vars


----------------------------------------------------------------------------
(* Sphere::intersect applied to one sphere, ray and range. *)

MaxCoord == 3
MaxRadius == 2

SphereInputs ==
    { [sphere |-> [center |-> Zero3, radius |-> r],
       ray |-> Ray(Vec(x, 0, z), d),
       range |-> [start |-> st, end |-> en]] :
        r \in 1..MaxRadius, x \in {0 - 1, 0, 1}, z \in (0 - MaxCoord)..MaxCoord,
        d \in {Vec(0, 0, 1), Vec(0, 0, 0 - 1), Vec(1, 0, 0), Vec(0, 0, 2), Vec(1, 0, 1), Zero3},
        st \in {0 - 1, 0, 2},
        en \in {Inf} \cup {Fin(e) : e \in {0, 2, MaxCoord + 1}} }

SphereInit ==
    /\ sp_in \in {Some(i) : i \in SphereInputs}
    /\ sp_out = None

SphereIntersect ==
    /\ sp_out = None
    /\ sp_out' = Some(Sphere_intersect(sp_in[1].sphere, sp_in[1].ray, sp_in[1].range))
    /\ UNCHANGED sp_in
    /\ OnlySphere

SphereNext == SphereIntersect

InitSphere == SphereInit /\ RenderIdle /\ TraceIdle /\ SchlickIdle /\ CacheIdle
SpecSphere == InitSphere /\ [][SphereNext]_vars

----------------------------------------------------------------------------
(* refract_schlick applied to one incoming direction and oriented normal. *)

MaxComp == 2

\* the normal an Intersection hands out is oriented against the ray:
\* v . n <= 0 (normal_front, object.rs 36-42)
SchlickInputs ==
    { i \in [v : {Vec(x, y, z) : x \in {0}, y \in (0 - MaxComp)..MaxComp,
                                 z \in (0 - MaxComp)..MaxComp},
             n : UnitVectors,
             ratio : {<<1, 1>>, <<1, 2>>, <<2, 1>>},
             rand2 : Rand2] : dot(i.v, i.n) <= 0 }

SchlickInit ==
    /\ rs_in \in {Some(i) : i \in SchlickInputs}
    /\ rs_out = None

RefractSchlick ==
    /\ rs_out = None
    /\ rs_out' = Some([cos |-> schlick_cos(rs_in[1].v, rs_in[1].n),
                       direction |-> refract_schlick(rs_in[1].v, rs_in[1].n,
                                                     rs_in[1].ratio, rs_in[1].rand2)])
    /\ UNCHANGED rs_in
    /\ OnlySchlick

SchlickNext == RefractSchlick

InitSchlick == SchlickInit /\ RenderIdle /\ TraceIdle /\ SphereIdle /\ CacheIdle
SpecSchlick == InitSchlick /\ [][SchlickNext]_vars

----------------------------------------------------------------------------
(* One Intersection and its lazily filled cache: object.rs 10-55. *)

MaxCalls == 3

\* the intersections Object::intersect hands to ray_color
Intersections ==
    { Object_intersect(o, ray_at(cam, 0, 0, 0, 0), [start |-> 0, end |-> Inf]) :
        o \in ObjectKinds, cam \in Cameras } \ {None}

CacheInit ==
    /\ isect \in Intersections
    /\ cache = empty_cache.cache
    /\ computed = empty_cache.computed
    /\ seen = nothing_seen
    /\ calls = 0

CacheState == [cache |-> cache, computed |-> computed]

CallPoint ==
    /\ calls < MaxCalls
    /\ LET r == point(isect[1], CacheState)
       IN /\ cache' = r.st.cache
          /\ computed' = r.st.computed
          /\ seen' = saw_point(seen, r.value)
    /\ calls' = calls + 1
    /\ UNCHANGED isect
    /\ OnlyCache

CallNormal ==
    /\ calls < MaxCalls
    /\ LET r == normal_front(isect[1], CacheState)
       IN /\ cache' = r.st.cache
          /\ computed' = r.st.computed
          /\ seen' = saw_normal(seen, r.value.normal)
    /\ calls' = calls + 1
    /\ UNCHANGED isect
    /\ OnlyCache

CallFront ==
    /\ calls < MaxCalls
    /\ LET r == normal_front(isect[1], CacheState)
       IN /\ cache' = r.st.cache
          /\ computed' = r.st.computed
          /\ seen' = saw_front(seen, r.value.front)
    /\ calls' = calls + 1
    /\ UNCHANGED isect
    /\ OnlyCache

CallScatter ==
    /\ calls < MaxCalls
    /\ \E u \in UnitVectors, rand2 \in Rand2 :
         LET r == scatter_cached(isect[1], CacheState, seen, u, rand2)
         IN /\ cache' = r.st.cache
            /\ computed' = r.st.computed
            /\ seen' = r.seen
    /\ calls' = calls + 1
    /\ UNCHANGED isect
    /\ OnlyCache

CacheNext ==
    \/ CallPoint
    \/ CallNormal
    \/ CallFront
    \/ CallScatter

InitCache == CacheInit /\ RenderIdle /\ TraceIdle /\ SphereIdle /\ SchlickIdle
SpecCache == InitCache /\ [][CacheNext]_vars

----------------------------------------------------------------------------
(* Properties of render(), under Spec. *)

AllJoined ==
    /\ joined = NUM_THREADS
    /\ \A w \in Workers : wstate[w] = "finished"

\* C1: render() is fork-join with a single barrier: the reduction of the
\* per-worker buffers has started (the accumulation buffer exists, or the
\* caller's thread is at or past the reduction) only when all NUM_THREADS
\* workers have finished and been joined, and no image, partial or complete,
\* has been returned before that.
C1_ForkJoinBarrier ==
    (pc \in {"reduce", "gamma", "done"} \/ buffer # <<>> \/ image # None) => AllJoined

\* C1 witness: every worker has been joined and the reduction is about to
\* start, over per-worker buffers that differ.
C1_Witness ==
    /\ pc = "reduce"
    /\ results # <<>>
    /\ \E v, w \in Workers : wbuf[v] # wbuf[w]

RECURSIVE SumOfWorkers(_, _)
SumOfWorkers(p, w) ==
    IF w = 0 THEN Zero3 ELSE vadd(wbuf[w][p], SumOfWorkers(p, w - 1))

\* C2: each of the NUM_THREADS workers computed a full buffer, one value
\* worker(.., i, j) per pixel of the IMAGE_WIDTH x IMAGE_HEIGHT image in
\* the order index = i * IMAGE_HEIGHT + j, and every pixel of the returned
\* buffer is the channel-wise square root of the sum of that pixel over the
\* NUM_THREADS per-worker buffers, each counted once, divided by NUM_THREADS.
C2_ReducedImage ==
    image # None =>
        /\ image[1].width = IMAGE_WIDTH
        /\ image[1].height = IMAGE_HEIGHT
        /\ Len(image[1].buffer) = IMAGE_WIDTH * IMAGE_HEIGHT
        /\ \A w \in Workers : Len(wbuf[w]) = IMAGE_WIDTH * IMAGE_HEIGHT
        /\ \A i \in 0..(IMAGE_WIDTH - 1), j \in 0..(IMAGE_HEIGHT - 1) :
             LET p == i * IMAGE_HEIGHT + j + 1
                 mean == vdiv(SumOfWorkers(p, NUM_THREADS), NUM_THREADS)
             IN image[1].buffer[p] = Vec(Sqrt(mean[1]), Sqrt(mean[2]), Sqrt(mean[3]))

\* C2 witness: an image was returned whose workers' buffers differ, with a
\* pixel that is not black.
C2_Witness ==
    /\ image # None
    /\ \E v, w \in Workers : wbuf[v] # wbuf[w]
    /\ \E p \in 1..NPixels : image[1].buffer[p] # Zero3

AnyPanicked == \E w \in Workers : wstate[w] = "panicked"

\* C3: once any worker thread has panicked, render() returns no image and
\* never reaches the reduction, and it can only end by failing: when nothing
\* more can happen, the panic has been propagated to the caller.
C3_PanicFailsRender ==
    AnyPanicked =>
        /\ image = None
        /\ buffer = <<>>
        /\ pc \notin {"reduce", "gamma", "done"}
        /\ (pc # "failed" => ENABLED RenderNext)

\* C3 witness: render() has failed although another worker finished its
\* whole buffer.
C3_Witness ==
    /\ pc = "failed"
    /\ AnyPanicked
    /\ \E w \in Workers : wstate[w] = "finished"

----------------------------------------------------------------------------
(* Properties of ray_color(), under SpecTrace. *)

\* the hit of object k by the ray, over the range ray_color passes
HitOf(k, ray) == Object_intersect(objects[k], ray, [start |-> 0, end |-> Inf])

\* C4: the intersection ray_color selected at depth > 0 has the minimum t
\* over all objects' hits and is the first in scene order among the hits with
\* that t; the scattered ray starts at its hit point; and the scene is the
\* scene as built.
C4_MinFirstInSceneOrder ==
    /\ objects = objects0
    /\ sel # None =>
         /\ sel[1].idx \in 1..Len(objects)
         /\ HitOf(sel[1].idx, sel[1].ray) # None
         /\ HitOf(sel[1].idx, sel[1].ray)[1].t = sel[1].t
         /\ cur.origin = at(sel[1].ray, sel[1].t)
         /\ \A k \in 1..Len(objects) :
              HitOf(k, sel[1].ray) # None =>
                  /\ sel[1].t <= HitOf(k, sel[1].ray)[1].t
                  /\ HitOf(k, sel[1].ray)[1].t = sel[1].t => sel[1].idx <= k

\* C4 witness: two different objects are hit at exactly the same minimum
\* t > 0, and the one earlier in scene order was selected.
C4_Witness ==
    /\ sel # None
    /\ sel[1].t > 0
    /\ \E k \in 1..Len(objects) :
         /\ k > sel[1].idx
         /\ objects[k] # objects[sel[1].idx]
         /\ HitOf(k, sel[1].ray) # None
         /\ HitOf(k, sel[1].ray)[1].t = sel[1].t

\* Every intersection selected is an exact root: its hit point lies on the
\* sphere and its normal has unit length, so no rounding of the integer grid
\* takes part in a selection.
ExactSelection ==
    sel # None =>
        LET o == objects[sel[1].idx]
            p == at(sel[1].ray, sel[1].t)
        IN /\ norm_squared(vsub(p, o.center)) = o.radius * o.radius
           /\ norm_squared(Sphere_normal(o, p)) = 1

\* C5: the intersection ray_color selected has t strictly greater than 0 (the
\* objects are tested over the open range (0, +inf)).
C5_SelectedTPositive == sel # None => sel[1].t > 0

\* C7: a call of ray_color with depth = 0 returns exactly (0, 0, 0).
C7_DepthZeroBlack ==
    (phase \in {"ret", "done"} /\ retDepth = 0) => val = Zero3

\* C7 witness: a call with depth = 0 returned, for a ray that hits an object
\* of the scene.
C7_Witness ==
    /\ phase = "ret"
    /\ retDepth = 0
    /\ closest_hit(objects, cur) # None

\* C8: every ray ray_color receives (from the camera at the outermost call,
\* from a material's scatter below it) has a direction of unit length.
C8_RaysNormalized == phase # "idle" => norm_squared(cur.direction) = 1

----------------------------------------------------------------------------
(* Properties of Sphere::intersect, under SpecSphere. *)

\* C6: Sphere::intersect returns the smaller root t0 when the discriminant is
\* strictly positive and t0 lies in range, otherwise the larger root t1 when
\* the discriminant is strictly positive and t1 lies in range, otherwise no
\* hit; a discriminant of zero is a miss, every returned t lies in range, and
\* where the arithmetic is exact the returned t solves a t^2 + 2 b t + c = 0.
C6_SphereIntersect ==
    sp_out # None =>
        LET ray == sp_in[1].ray
            rg == sp_in[1].range
            v == vsub(ray.origin, sp_in[1].sphere.center)
            a == dot(ray.direction, ray.direction)
            b == dot(ray.direction, v)
            c == dot(v, v) - sp_in[1].sphere.radius * sp_in[1].sphere.radius
            disc == b * b - a * c
            d == Sqrt(disc)
            t0 == Div(-b - d, a)
            t1 == Div(-b + d, a)
            InRange(t) == rg.start <= t /\ (rg.end = Inf \/ t < rg.end[1])
            exact == d * d = disc /\ (-b - d) % a = 0 /\ (-b + d) % a = 0
            r == sp_out[1]
        IN /\ disc <= 0 => r = None
           /\ (disc > 0 /\ InRange(t0)) => r = Some(t0)
           /\ (disc > 0 /\ ~InRange(t0) /\ InRange(t1)) => r = Some(t1)
           /\ (disc > 0 /\ ~InRange(t0) /\ ~InRange(t1)) => r = None
           /\ r # None =>
                /\ InRange(r[1])
                /\ disc > 0
                /\ exact => a * r[1] * r[1] + 2 * b * r[1] + c = 0
                /\ exact => t0 <= t1

\* C6 witness: the two roots differ, the smaller one is out of range and the
\* larger one, in range, was returned.
C6_Witness ==
    /\ sp_out # None
    /\ sp_out[1] # None
    /\ LET ray == sp_in[1].ray
           v == vsub(ray.origin, sp_in[1].sphere.center)
           a == dot(ray.direction, ray.direction)
           b == dot(ray.direction, v)
           c == dot(v, v) - sp_in[1].sphere.radius * sp_in[1].sphere.radius
           d == Sqrt(b * b - a * c)
       IN /\ Div(-b - d, a) < sp_in[1].range.start
          /\ sp_out[1][1] = Div(-b + d, a)
          /\ sp_in[1].range.end # Inf

----------------------------------------------------------------------------
(* Properties of refract_schlick, under SpecSchlick. *)

\* C10: for every incoming direction v and oriented normal n the cosine
\* refract_schlick uses is min(1, -(v . n)); it never exceeds 1 and 1 - cos^2
\* is never negative, also when v is not of unit length.
C10_CosineClamped ==
    rs_out # None =>
        /\ rs_out[1].cos = Min(1, -dot(rs_in[1].v, rs_in[1].n))
        /\ rs_out[1].cos <= 1
        /\ 1 - rs_out[1].cos * rs_out[1].cos >= 0

----------------------------------------------------------------------------
(* Properties of the Intersection cache, under SpecCache. *)

\* C9: under any sequence of calls to point(), normal(), front() and
\* scatter() on one Intersection, the hit point and the (normal, front) pair
\* are each computed at most once, a cell once filled keeps its value, and
\* every call returned the same point, normal and front-face: those of the
\* first computation.
C9_ComputedOnce ==
    /\ computed.point <= 1
    /\ computed.normal_front <= 1
    /\ (cache.point # None) = (computed.point = 1)
    /\ (cache.normal_front # None) = (computed.normal_front = 1)
    /\ cache.normal_front # None => cache.point # None
    /\ seen.point \subseteq {compute_point(isect[1])}
    /\ seen.normal \subseteq {compute_normal_front(isect[1], compute_point(isect[1])).normal}
    /\ seen.front \subseteq {compute_normal_front(isect[1], compute_point(isect[1])).front}
    /\ seen.point # {} => cache.point = Some(compute_point(isect[1]))

\* C9 witness: after MaxCalls calls, among them reads of the point, of the
\* normal and of the front-face, each closure has run exactly once.
C9_Witness ==
    /\ calls = MaxCalls
    /\ computed.point = 1
    /\ computed.normal_front = 1
    /\ seen.point # {}
    /\ seen.normal # {}
    /\ seen.front # {}

====
